---------------------------- MODULE Spec2Model ----------------------------
(***************************************************************************)
(* Model of scripts/unicode/gen_unicode_tables.py: the Unicode range-table *)
(* generator.  Text is modelled as sequences of one-character strings,     *)
(* codepoints as integers, ranges as tuples <<lo, hi>> and valued ranges   *)
(* as tuples <<lo, hi, value>> where value is a sequence of characters.    *)
(***************************************************************************)
EXTENDS Integers, Sequences, FiniteSets, TLC

VARIABLES
  \* ---- merge / validator harness -------------------------------------
  mpc,        \* "start" | "merged" | "validated"
  mIn,        \* input rows <<lo, hi, value>>, in arbitrary order
  mOutU,      \* _merge_ranges([(lo, hi) for lo, hi, _ in mIn])
  mOutV,      \* _merge_valued_ranges(mIn)
  mOutU2,     \* _merge_ranges(mOutU)
  mOutV2,     \* _merge_valued_ranges(mOutV)
  mValIn,     \* verdict of _assert_disjoint_sorted(mIn)
  mValU,      \* verdict of _assert_disjoint_sorted on mOutU
  mValV,      \* verdict of _assert_disjoint_sorted(mOutV)
  \* ---- line parser harness --------------------------------------------
  pWanted,    \* the wanted argument: [given, props]; given = FALSE is None
  pSrc,       \* the line last read: [text, kind, lo, hi, prop]
  pIdx,       \* number of lines read so far
  pRows,      \* rows
  pOutcome,   \* what the loop body did with the line last read
  pErr,       \* the error _parse_property_file raised, "none" while running
  \* ---- main -------------------------------------------------------------
  pc,         \* the statement of main about to run, "done" or "failed"
  src_i,      \* position of _ensure_sources in URLS (1-based)
  cache,      \* cache file of each resource: [exists, lines]
  cache0,     \* the cache files as main found them
  attempts,   \* number of calls of _download_to per resource
  fetched,    \* what urlopen(...).read() returned per resource
  gcb_rows, emoji_rows, ep, emoji_pres, eaw_rows, eaw_wide,
  validated,  \* names of the lists _assert_disjoint_sorted has accepted
  emit_args,  \* the arguments of the call of _emit_inc
  out_dir,    \* out_path.parent was created by _emit_inc
  out_file,   \* the output file: [exists, lines]
  out0,       \* the output file as main found it
  writes,     \* number of writes of the output file
  steps,      \* the steps of main completed without error, in order
  err         \* the error that ended main, "none" otherwise

mvars == <<mpc, mIn, mOutU, mOutV, mOutU2, mOutV2, mValIn, mValU, mValV>>
pvars == <<pWanted, pSrc, pIdx, pRows, pOutcome, pErr>>
xvars ==
  <<pc, src_i, cache, cache0, attempts, fetched,
    gcb_rows, emoji_rows, ep, emoji_pres, eaw_rows, eaw_wide,
    validated, emit_args, out_dir, out_file, out0, writes, steps, err>>
vars == <<mvars, pvars, xvars>>

-----------------------------------------------------------------------------
\* Bounds of the model.
MaxRows == 3        \* longest input list handed to the mergers / validator
MaxCp == 2          \* largest codepoint in a merge / validator input row
MaxLines == 2       \* lines read by the line parser harness

-----------------------------------------------------------------------------
\* Characters and Python's str ordering (by code point).

Ascii ==
  <<"\t", " ", "#", ".",
    "0", "1", "2", "3", "4", "5", "6", "7", "8", "9", ";",
    "A", "B", "C", "D", "E", "F", "G", "H", "I", "J", "K", "L", "M",
    "N", "O", "P", "Q", "R", "S", "T", "U", "V", "W", "X", "Y", "Z", "_",
    "a", "b", "c", "d", "e", "f", "g", "h", "i", "j", "k", "l", "m",
    "n", "o", "p", "q", "r", "s", "t", "u", "v", "w", "x", "y", "z">>

\* position in code point order of a character of Ascii
Ord(c) == CHOOSE i \in 1..Len(Ascii) : Ascii[i] = c

RECURSIVE StrLessFrom(_, _, _)
StrLessFrom(a, b, i) ==
  IF i > Len(a) THEN i <= Len(b)
  ELSE IF i > Len(b) THEN FALSE
  ELSE IF a[i] = b[i] THEN StrLessFrom(a, b, i + 1)
  ELSE Ord(a[i]) < Ord(b[i])

StrLess(a, b) == StrLessFrom(a, b, 1)

Max(a, b) == IF a >= b THEN a ELSE b

\* the element of a singleton set.  Only({e(x) : x \in {v}}) is
\* LET x == v IN e(x) with v evaluated once, whatever the evaluation strategy.
Only(S) == CHOOSE x \in S : TRUE

-----------------------------------------------------------------------------
\* sorted(..., key=...): a stable sort by a key order.

\* key=lambda x: (x[0], x[1])
RangeKeyLess(a, b) == a[1] < b[1] \/ (a[1] = b[1] /\ a[2] < b[2])

ValuedKeyLessNoValue(a, b) == RangeKeyLess(a, b)

\* key=lambda x: (x[0], x[1], x[2])
ValuedKeyLess(a, b) ==
  \/ a[1] < b[1]
  \/ (a[1] = b[1] /\ a[2] < b[2])
  \/ (a[1] = b[1] /\ a[2] = b[2] /\ StrLess(a[3], b[3]))

\* the key order of one of the two sorts: by_value selects (x[0], x[1], x[2])
KeyLess(by_value, a, b) ==
  IF by_value THEN ValuedKeyLess(a, b) ELSE RangeKeyLess(a, b)

RECURSIVE InsertBy(_, _, _, _)
InsertBy(by_value, s, x, i) ==
  IF i > Len(s) THEN Append(s, x)
  ELSE IF KeyLess(by_value, x, s[i])
       THEN SubSeq(s, 1, i - 1) \o <<x>> \o SubSeq(s, i, Len(s))
       ELSE InsertBy(by_value, s, x, i + 1)

RECURSIVE SortedFrom(_, _, _, _)
SortedFrom(by_value, s, i, acc) ==
  IF i > Len(s) THEN acc
  ELSE SortedFrom(by_value, s, i + 1, InsertBy(by_value, acc, s[i], 1))

\* sorted(s, key=...): Python's sort is stable
SortedBy(by_value, s) == SortedFrom(by_value, s, 1, <<>>)

-----------------------------------------------------------------------------
\* _merge_ranges

TouchesNoAdjacent(lo, cur_hi) == lo <= cur_hi

\* if lo <= cur_hi + 1
Touches(lo, cur_hi) == lo <= cur_hi + 1

MergeFlushDropped(out, cur) == out

\* out.append(cur) after the loop
MergeFlush(out, cur) == Append(out, cur)

RECURSIVE MergeWalk(_, _, _, _, _)
MergeWalk(s, i, cur_lo, cur_hi, out) ==
  IF i > Len(s) THEN MergeFlush(out, <<cur_lo, cur_hi>>)
  ELSE IF Touches(s[i][1], cur_hi)
       THEN MergeWalk(s, i + 1, cur_lo, Max(cur_hi, s[i][2]), out)
       ELSE MergeWalk(s, i + 1, s[i][1], s[i][2], Append(out, <<cur_lo, cur_hi>>))

merge_ranges(ranges) ==
  IF ranges = <<>> THEN <<>>
  ELSE Only({MergeWalk(s, 2, s[1][1], s[1][2], <<>>) : s \in {SortedBy(FALSE, ranges)}})

-----------------------------------------------------------------------------
\* _merge_valued_ranges

ValuedExtendsIgnoreValue(v, cur_v, lo, cur_hi) == lo <= cur_hi + 1

\* if v == cur_v and lo <= cur_hi + 1
ValuedExtends(v, cur_v, lo, cur_hi) == v = cur_v /\ lo <= cur_hi + 1

RECURSIVE MergeValuedWalk(_, _, _, _, _, _)
MergeValuedWalk(s, i, cur_lo, cur_hi, cur_v, out) ==
  IF i > Len(s) THEN MergeFlush(out, <<cur_lo, cur_hi, cur_v>>)
  ELSE IF ValuedExtends(s[i][3], cur_v, s[i][1], cur_hi)
       THEN MergeValuedWalk(s, i + 1, cur_lo, Max(cur_hi, s[i][2]), cur_v, out)
       ELSE MergeValuedWalk(s, i + 1, s[i][1], s[i][2], s[i][3],
                            Append(out, <<cur_lo, cur_hi, cur_v>>))

merge_valued_ranges(ranges) ==
  IF ranges = <<>> THEN <<>>
  ELSE Only({MergeValuedWalk(s, 2, s[1][1], s[1][2], s[1][3], <<>>) :
             s \in {SortedBy(TRUE, ranges)}})

-----------------------------------------------------------------------------
\* _assert_disjoint_sorted: the verdict is [raised, at]; at is the offending
\* lo carried by the error message, -1 when nothing is raised.

Accepted == [raised |-> FALSE, at |-> -1]
OverlapError(lo) == [raised |-> TRUE, at |-> lo]

ValidatorNoSort(ranges) == ranges

\* ranges = sorted(ranges, key=lambda x: (x[0], x[1]))
ValidatorSort(ranges) == SortedBy(FALSE, ranges)

OverlapsStrict(lo, prev_hi) == lo < prev_hi

\* if lo <= prev_hi
Overlaps(lo, prev_hi) == lo <= prev_hi

RECURSIVE AssertWalk(_, _, _)
AssertWalk(s, i, prev_hi) ==
  IF i > Len(s) THEN Accepted
  ELSE IF Overlaps(s[i][1], prev_hi) THEN OverlapError(s[i][1])
  ELSE AssertWalk(s, i + 1, s[i][2])

assert_disjoint_sorted(ranges) ==
  Only({AssertWalk(s, 1, -1) : s \in {ValidatorSort(ranges)}})

\* [(lo, hi) for lo, hi, _prop in rows]
Project(rows) == [i \in 1..Len(rows) |-> <<rows[i][1], rows[i][2]>>]

\* the validator unpacks (lo, hi, _): a list of pairs is handed to it with a
\* third component it never reads
Tagged(rows) == [i \in 1..Len(rows) |-> <<rows[i][1], rows[i][2], <<>>>>]

-----------------------------------------------------------------------------
\* Harness for the mergers and the validator: every list of at most MaxRows
\* rows over the codepoints 0..MaxCp and two property values.

SampleValues == {<<"L">>, <<"L", "V">>}

SampleRows ==
  {<<lo, hi, v>> : lo \in 0..MaxCp, hi \in 0..MaxCp, v \in SampleValues}
  \ {<<lo, hi, v>> \in (0..MaxCp) \X (0..MaxCp) \X SampleValues : lo > hi}

SampleLists == UNION {[1..n -> SampleRows] : n \in 0..MaxRows}

MergeInit ==
  /\ mpc = "start"
  /\ mIn \in SampleLists
  /\ mOutU = <<>> /\ mOutV = <<>> /\ mOutU2 = <<>> /\ mOutV2 = <<>>
  /\ mValIn = Accepted /\ mValU = Accepted /\ mValV = Accepted

RunMergers ==
  /\ mpc = "start"
  /\ mpc' = "merged"
  /\ mOutU' = merge_ranges(Project(mIn))
  /\ mOutV' = merge_valued_ranges(mIn)
  /\ UNCHANGED <<mIn, mOutU2, mOutV2, mValIn, mValU, mValV>>
  /\ UNCHANGED <<pvars, xvars>>

RunValidator ==
  /\ mpc = "merged"
  /\ mpc' = "validated"
  /\ mValIn' = assert_disjoint_sorted(mIn)
  /\ mValU' = assert_disjoint_sorted(Tagged(mOutU))
  /\ mValV' = assert_disjoint_sorted(mOutV)
  /\ UNCHANGED <<mIn, mOutU, mOutV, mOutU2, mOutV2>>
  /\ UNCHANGED <<pvars, xvars>>

RunRemerge ==
  /\ mpc = "validated"
  /\ mpc' = "remerged"
  /\ mOutU2' = merge_ranges(mOutU)
  /\ mOutV2' = merge_valued_ranges(mOutV)
  /\ UNCHANGED <<mIn, mOutU, mOutV, mValIn, mValU, mValV>>
  /\ UNCHANGED <<pvars, xvars>>

MergeNext == RunMergers \/ RunValidator \/ RunRemerge

\* the harness at rest, while another part of the program is explored
MergeIdle ==
  /\ mpc = "idle" /\ mIn = <<>>
  /\ mOutU = <<>> /\ mOutV = <<>> /\ mOutU2 = <<>> /\ mOutV2 = <<>>
  /\ mValIn = Accepted /\ mValU = Accepted /\ mValV = Accepted



-----------------------------------------------------------------------------
\* Properties of the mergers and the validator (checked under MergeSpec).

\* the set of codepoints a list of ranges covers
Cover(rows) == UNION {rows[i][1]..rows[i][2] : i \in 1..Len(rows)}

\* the set of codepoints covered by the rows tagged v
CoverOf(rows, v) ==
  UNION {rows[i][1]..rows[i][2] : i \in {k \in 1..Len(rows) : rows[k][3] = v}}

\* two entries at different positions share a codepoint
HasOverlap(rows) ==
  \E i, j \in 1..Len(rows) :
    i # j /\ rows[i][1] <= rows[j][2] /\ rows[j][1] <= rows[i][2]

\* two rows with different values share a codepoint
CrossValueOverlap(rows) ==
  \E i, j \in 1..Len(rows) :
    /\ rows[i][3] # rows[j][3]
    /\ rows[i][1] <= rows[j][2] /\ rows[j][1] <= rows[i][2]

OutOfOrder(rows) ==
  \E i, j \in 1..Len(rows) : i < j /\ RangeKeyLess(rows[j], rows[i])

Bijections(n) == {p \in [1..n -> 1..n] : \A i, j \in 1..n : p[i] = p[j] => i = j}

PermsUpTo == [n \in 0..MaxRows |-> Bijections(n)]

Permuted(rows, p) == [i \in 1..Len(rows) |-> rows[p[i]]]

\* C1: the unvalued merge returns the minimal disjoint cover of its input:
\* the output covers exactly the codepoints the input covers, consecutive
\* output entries neither overlap nor touch (next.lo > prev.hi + 1), and the
\* empty list yields the empty list.
C1_UnvaluedMinimalCover ==
  mpc # "start" =>
    /\ Cover(mOutU) = Cover(mIn)
    /\ \A i \in 1..Len(mOutU) : mOutU[i][1] <= mOutU[i][2]
    /\ \A i \in 1..(Len(mOutU) - 1) : mOutU[i + 1][1] > mOutU[i][2] + 1
    /\ (mIn = <<>> => mOutU = <<>>)

\* an unsorted three-row input with an overlap, merged into two entries
C1_Witness ==
  /\ mpc = "merged"
  /\ Len(mIn) = 3 /\ OutOfOrder(mIn) /\ HasOverlap(mIn)
  /\ Len(mOutU) = 2

\* C2: the valued merge never coalesces rows of differing values: every
\* output entry covers only codepoints covered by input rows of its own
\* value, and per value the output covers exactly what the input covers.
C2_ValuedKeepsValues ==
  mpc # "start" =>
    /\ \A i \in 1..Len(mOutV) :
         /\ mOutV[i][1] <= mOutV[i][2]
         /\ (mOutV[i][1]..mOutV[i][2]) \subseteq CoverOf(mIn, mOutV[i][3])
    /\ \A v \in SampleValues : CoverOf(mOutV, v) = CoverOf(mIn, v)

\* two codepoint-adjacent rows of different values went through the merge
C2_Witness ==
  /\ mpc = "merged"
  /\ \E i, j \in 1..Len(mIn) :
       mIn[i][3] # mIn[j][3] /\ mIn[j][1] = mIn[i][2] + 1
  /\ Len(mOutV) >= 2

\* C3 as stated: the validator never raises on the output of either merge.
C3_ValidatorAcceptsEveryMergeOutput ==
  mpc \in {"validated", "remerged"} => ~mValU.raised /\ ~mValV.raised

\* C3 as amended: the validator never raises on the output of the unvalued
\* merge, and raises on the output of the valued merge exactly when two
\* input rows of different values share a codepoint.
C3_ValidatorOnMergeOutput ==
  mpc \in {"validated", "remerged"} =>
    /\ ~mValU.raised
    /\ (mValV.raised <=> CrossValueOverlap(mIn))

\* a valued merge output of three entries, alternating values, was accepted
C3_Witness ==
  /\ mpc = "validated"
  /\ Len(mOutV) = 3 /\ mOutV[1][3] # mOutV[2][3] /\ mOutV[2][3] # mOutV[3][3]
  /\ ~mValV.raised

\* C4: the validator raises on a list, given in any order, exactly when two
\* of its entries share a codepoint.
C4_ValidatorRejectsExactlyOverlaps ==
  mpc \in {"validated", "remerged"} => (mValIn.raised <=> HasOverlap(mIn))

\* an unsorted list in which a long range contains two later ones was rejected
C4_Witness ==
  /\ mpc = "validated"
  /\ Len(mIn) = 3 /\ OutOfOrder(mIn)
  /\ {<<mIn[i][1], mIn[i][2]>> : i \in 1..3} = {<<0, 2>>, <<1, 1>>, <<2, 2>>}
  /\ mValIn.raised

\* the rows stand in non-decreasing (lo, hi, value) order: one list per multiset
Canonical(rows) ==
  \A i \in 1..(Len(rows) - 1) : ~ValuedKeyLess(rows[i + 1], rows[i])

\* C7: both merges return the same list for every permutation of the input.
\* Every list is a permutation of exactly one canonical list, so it is stated
\* for the canonical lists: each permutation of one gives the output the
\* canonical list itself gave, hence any two orders of the same rows agree.
C7_OrderIndependent ==
  (mpc = "merged" /\ Canonical(mIn)) =>
    \A p \in PermsUpTo[Len(mIn)] :
      /\ merge_ranges(Project(Permuted(mIn, p))) = mOutU
      /\ merge_valued_ranges(Permuted(mIn, p)) = mOutV

\* three rows, a duplicate and two that share lo and hi but differ in value,
\* one of which overlaps a third
C7_Witness ==
  /\ mpc = "merged"
  /\ Len(mIn) = 3 /\ Canonical(mIn)
  /\ \E i, j \in 1..3 :
       mIn[i][1] = mIn[j][1] /\ mIn[i][2] = mIn[j][2] /\ mIn[i][3] # mIn[j][3]
  /\ HasOverlap(mIn) /\ Len(mOutV) = 3

\* C8: merging a merged list again returns the identical list, for both merges.
C8_Idempotent ==
  mpc = "remerged" => mOutU2 = mOutU /\ mOutV2 = mOutV

\* a valued input whose rows of different values overlap was merged twice
C8_Witness ==
  /\ mpc = "remerged"
  /\ CrossValueOverlap(mIn)
  /\ Len(mOutV) = 3 /\ Len(mOutU) = 1


-----------------------------------------------------------------------------
\* Text helpers: str.strip, the character classes of _DATA_RE, int(s, 16).

IsSpace(c) == c \in {" ", "\t"}
IsDigit(c) == Ord("0") <= Ord(c) /\ Ord(c) <= Ord("9")
IsUpper(c) == Ord("A") <= Ord(c) /\ Ord(c) <= Ord("Z")
IsLower(c) == Ord("a") <= Ord(c) /\ Ord(c) <= Ord("z")

\* [0-9A-Fa-f]
IsHexChar(c) ==
  \/ IsDigit(c)
  \/ (Ord("A") <= Ord(c) /\ Ord(c) <= Ord("F"))
  \/ (Ord("a") <= Ord(c) /\ Ord(c) <= Ord("f"))

\* [0-9A-Fa-f.]
IsFieldChar(c) == IsHexChar(c) \/ c = "."

\* [A-Za-z_]
IsPropChar(c) == IsUpper(c) \/ IsLower(c) \/ c = "_"

\* \w, as \b reads it
IsWordChar(c) == IsPropChar(c) \/ IsDigit(c)

InClass(cls, c) ==
  CASE cls = "space" -> IsSpace(c)
    [] cls = "field" -> IsFieldChar(c)
    [] cls = "prop" -> IsPropChar(c)

\* the first index at or after i whose character is not in the class
\* (a greedy cls* from i)
RECURSIVE SpanEnd(_, _, _)
SpanEnd(line, i, cls) ==
  IF i <= Len(line) /\ InClass(cls, line[i]) THEN SpanEnd(line, i + 1, cls) ELSE i

RECURSIVE LastNonSpace(_, _)
LastNonSpace(line, i) ==
  IF i >= 1 /\ IsSpace(line[i]) THEN LastNonSpace(line, i - 1) ELSE i

\* str.strip()
Strip(line) ==
  Only({IF a > Len(line) THEN <<>> ELSE SubSeq(line, a, LastNonSpace(line, Len(line))) :
        a \in {SpanEnd(line, 1, "space")}})

HexDigitValue(c) ==
  IF IsDigit(c) THEN Ord(c) - Ord("0")
  ELSE IF IsUpper(c) THEN Ord(c) - Ord("A") + 10
  ELSE Ord(c) - Ord("a") + 10

RECURSIVE HexFold(_, _, _)
HexFold(s, i, acc) ==
  IF i > Len(s) THEN acc ELSE HexFold(s, i + 1, acc * 16 + HexDigitValue(s[i]))

\* int(s, 16) on a string of field characters: ValueError when s is empty or
\* holds a "."
ParseInt16(s) ==
  IF Len(s) = 0 \/ \E i \in 1..Len(s) : ~IsHexChar(s[i])
  THEN [ok |-> FALSE, val |-> -1]
  ELSE [ok |-> TRUE, val |-> HexFold(s, 1, 0)]

\* index of the first "..", 0 when there is none
FindDotDot(f) ==
  LET hits == {i \in 1..(Len(f) - 1) : f[i] = "." /\ f[i + 1] = "."}
  IN IF hits = {} THEN 0 ELSE CHOOSE i \in hits : \A j \in hits : i <= j

\* _parse_codepoint_range: ok = FALSE is int()'s ValueError
SplitRange(f, d) ==
  Only({[ok |-> ab[1].ok /\ ab[2].ok, lo |-> ab[1].val, hi |-> ab[2].val] :
        ab \in {IF d > 0
                 THEN <<ParseInt16(SubSeq(f, 1, d - 1)), ParseInt16(SubSeq(f, d + 2, Len(f)))>>
                 ELSE <<ParseInt16(f), ParseInt16(f)>>}})

parse_codepoint_range(field) ==
  Only({SplitRange(f, FindDotDot(f)) : f \in {Strip(field)}})

NoMatch == [matched |-> FALSE, cp_field |-> <<>>, prop |-> <<>>]

\* ([A-Za-z_]+)\b from index k, after the ";" and \s*
MatchProp(line, e1, k) ==
  Only({IF e2 = k THEN NoMatch
        ELSE IF e2 <= Len(line) /\ IsWordChar(line[e2]) THEN NoMatch
        ELSE [matched |-> TRUE,
              cp_field |-> SubSeq(line, 1, e1 - 1),
              prop |-> SubSeq(line, k, e2 - 1)] :
        e2 \in {SpanEnd(line, k, "prop")}})

\* \s*;\s* from index e1, the end of ([0-9A-Fa-f.]+)
MatchSeparator(line, e1) ==
  Only({IF e1 = 1 \/ s1 > Len(line) THEN NoMatch
        ELSE IF line[s1] # ";" THEN NoMatch
        ELSE Only({MatchProp(line, e1, k) : k \in {SpanEnd(line, s1 + 1, "space")}}) :
        s1 \in {SpanEnd(line, e1, "space")}})

\* _DATA_RE.match(line): ^([0-9A-Fa-f.]+)\s*;\s*([A-Za-z_]+)\b
DataReMatch(line) ==
  Only({MatchSeparator(line, e1) : e1 \in {SpanEnd(line, 1, "field")}})

-----------------------------------------------------------------------------
\* _parse_property_file

MaxCodepoint == 1114111      \* 0x10FFFF

NoWanted == [given |-> FALSE, props |-> {}]
Wanted(props) == [given |-> TRUE, props |-> props]

InvalidRangeNoOrder(lo, hi) == lo < 0 \/ hi > MaxCodepoint

\* if lo < 0 or hi > 0x10FFFF or lo > hi
InvalidRange(lo, hi) == lo < 0 \/ hi > MaxCodepoint \/ lo > hi

\* if wanted is not None and prop not in wanted
NotWanted(wanted, prop) == wanted.given /\ prop \notin wanted.props

Skip == [kind |-> "skipped", row |-> <<>>]

\* lo, hi = _parse_codepoint_range(cp_field), the range check, rows.append
ParseRow(m) ==
  Only({IF ~r.ok THEN [kind |-> "FormatError", row |-> <<>>]
        ELSE IF InvalidRange(r.lo, r.hi) THEN [kind |-> "RangeError", row |-> <<>>]
        ELSE [kind |-> "row", row |-> <<r.lo, r.hi, m.prop>>] :
        r \in {parse_codepoint_range(m.cp_field)}})

\* the loop body after line = line.strip()
ParseStripped(line, wanted) ==
  IF line = <<>> THEN Skip
  ELSE IF line[1] = "#" THEN Skip
  ELSE Only({IF ~m.matched THEN Skip
             ELSE IF NotWanted(wanted, m.prop) THEN Skip
             ELSE ParseRow(m) :
             m \in {DataReMatch(line)}})

\* one pass of the loop body: "skipped" is continue, "row" is rows.append,
\* "FormatError" is the ValueError of int(), "RangeError" the ValueError raised
\* for an invalid codepoint range
parse_line(raw, wanted) ==
  Only({ParseStripped(line, wanted) : line \in {Strip(raw)}})

\* the loop over the lines, from line i on
RECURSIVE ParseFrom(_, _, _, _)
ParseFrom(lines, i, wanted, rows) ==
  IF i > Len(lines) THEN [err |-> "none", rows |-> rows]
  ELSE Only({IF o.kind = "skipped" THEN ParseFrom(lines, i + 1, wanted, rows)
             ELSE IF o.kind = "row" THEN ParseFrom(lines, i + 1, wanted, Append(rows, o.row))
             ELSE [err |-> o.kind, rows |-> <<>>] :
             o \in {parse_line(lines[i], wanted)}})

\* _parse_property_file(path, wanted) on the lines of the file
parse_property_file(lines, wanted) == ParseFrom(lines, 1, wanted, <<>>)

\* gcb_props in main, which is also the key set of gcb_map in _emit_inc
gcb_props ==
  {<<"C", "R">>, <<"L", "F">>, <<"C", "o", "n", "t", "r", "o", "l">>, <<"E", "x", "t", "e", "n",
      "d">>, <<"Z", "W", "J">>, <<"R", "e", "g", "i", "o", "n", "a", "l", "_", "I", "n", "d",
      "i", "c", "a", "t", "o", "r">>,
   <<"P", "r", "e", "p", "e", "n", "d">>, <<"S", "p", "a", "c", "i", "n", "g", "M", "a", "r",
       "k">>, <<"L">>, <<"V">>, <<"T">>, <<"L", "V">>, <<"L", "V", "T">>}

\* wanted={"Extended_Pictographic", "Emoji_Presentation"}
emoji_props == {<<"E", "x", "t", "e", "n", "d", "e", "d", "_", "P", "i", "c", "t", "o", "g", "r",
    "a", "p", "h", "i", "c">>, <<"E", "m", "o", "j", "i", "_", "P", "r", "e", "s", "e", "n", "t",
    "a", "t", "i", "o", "n">>}

\* wanted={"W", "F"}
eaw_props == {<<"W">>, <<"F">>}

-----------------------------------------------------------------------------
\* Harness for the line parser: lines are written from a codepoint range and
\* a property name, the way the UCD files write them, and read back.

HexDigitChars ==
  <<"0", "1", "2", "3", "4", "5", "6", "7", "8", "9", "A", "B", "C", "D", "E", "F">>

\* the digits of f"{x:X}"
RECURSIVE HexText(_)
HexText(x) ==
  IF x < 16 THEN <<HexDigitChars[x + 1]>>
  ELSE Append(HexText(x \div 16), HexDigitChars[(x % 16) + 1])

RECURSIVE ZeroPad(_, _)
ZeroPad(s, width) == IF Len(s) >= width THEN s ELSE ZeroPad(<<"0">> \o s, width)

\* the digits of f"{x:04X}"
HexText04(x) == ZeroPad(HexText(x), 4)

SampleCodepoints == {0, 65, MaxCodepoint, MaxCodepoint + 1}

SampleProps == {<<"W">>, <<"N">>, <<"C", "o", "n", "t", "r", "o", "l">>}

\* "<lo> ; <prop>" for a single codepoint, "<lo>..<hi>;<prop> # c" for a range
DataLine(lo, hi, single, prop) ==
  [text |-> IF single THEN HexText04(lo) \o <<" ", ";", " ">> \o prop
            ELSE HexText04(lo) \o <<".", ".">> \o HexText04(hi) \o <<";">> \o prop \o <<" ", "#",
                " ", "c">>,
   kind |-> "data", lo |-> lo, hi |-> hi, prop |-> prop]

OtherLine(text, kind) == [text |-> text, kind |-> kind, lo |-> 0, hi |-> 0, prop |-> <<>>]

SampleLines ==
  {DataLine(c, c, TRUE, q) : c \in SampleCodepoints, q \in SampleProps}
  \cup {DataLine(lh[1], lh[2], FALSE, q) :
          lh \in {<<0, 65>>, <<65, 0>>, <<65, MaxCodepoint + 1>>}, q \in SampleProps}
  \cup {[text |-> <<" ", " ", "1", "f", ".", ".", "2", "0", ";", "W">>, kind |-> "data",
      lo |-> 31, hi |-> 32, prop |-> <<"W">>],
        OtherLine(<<>>, "blank"),
        OtherLine(<<" ", "\t">>, "blank"),
        OtherLine(<<"#", " ", "1", "1", "0", "0", "0", "0", " ", ";", " ", "C", "o", "n", "t",
            "r", "o", "l">>, "comment"),
        OtherLine(<<"z", "z", "z", "z", ";", " ", "F", "o", "o">>, "noshape"),
        OtherLine(<<"0", "0", "4", "1", " ", "W">>, "noshape"),
        OtherLine(<<"1", "1", "0", "0", "0", "0", ";", " ", "W", "2">>, "noshape"),
        OtherLine(<<"1", ".", "2", " ", ";", " ", "W">>, "badhex"),
        OtherLine(<<"0", "0", "4", "1", ".", ".", " ", ";", " ", "C", "o", "n", "t", "r", "o",
            "l">>, "badhex")}

SampleWanted == {NoWanted, Wanted(eaw_props), Wanted(gcb_props)}

NoLine == OtherLine(<<>>, "none")

ParseInit ==
  /\ pWanted \in SampleWanted
  /\ pSrc = NoLine /\ pIdx = 0 /\ pRows = <<>>
  /\ pOutcome = "none" /\ pErr = "none"

\* the loop body on the next line of the file
ParseLine ==
  /\ pErr = "none" /\ pIdx < MaxLines
  /\ \E src \in SampleLines :
       \E o \in {parse_line(src.text, pWanted)} :
          /\ pSrc' = src
          /\ pIdx' = pIdx + 1
          /\ pOutcome' = o.kind
          /\ pRows' = IF o.kind = "row" THEN Append(pRows, o.row) ELSE pRows
          /\ pErr' = IF o.kind \in {"FormatError", "RangeError"} THEN o.kind ELSE "none"
  /\ UNCHANGED pWanted
  /\ UNCHANGED <<mvars, xvars>>

ParseNext == ParseLine

ParseIdle ==
  /\ pWanted = NoWanted /\ pSrc = NoLine /\ pIdx = 0 /\ pRows = <<>>
  /\ pOutcome = "idle" /\ pErr = "none"

-----------------------------------------------------------------------------
\* Properties of the line parser (checked under ParseSpec).

\* the line last read has the record shape and an invalid codepoint range
BadRangeLine ==
  /\ pSrc.kind = "data"
  /\ (pSrc.lo > pSrc.hi \/ pSrc.hi > MaxCodepoint)

\* C6 as stated: every line of the record shape with lo > hi or hi > 0x10FFFF
\* raises RangeError whatever the wanted set; lines without the shape, blank
\* lines and comment lines are skipped without error.
C6_RangeErrorForEveryWantedSet ==
  /\ BadRangeLine => pOutcome = "RangeError" /\ pErr = "RangeError"
  /\ pSrc.kind \in {"blank", "comment", "noshape"} =>
       pOutcome = "skipped" /\ pErr = "none"

\* C6 as amended: such a line raises RangeError when no wanted set is given
\* or its property is in the set; when a wanted set is given and the property
\* is not in it, the line is dropped without error; lines without the shape,
\* blank lines and comment lines are skipped without error.
C6_RangeErrorForWantedLines ==
  /\ (BadRangeLine /\ ~NotWanted(pWanted, pSrc.prop)) =>
       pOutcome = "RangeError" /\ pErr = "RangeError"
  /\ (BadRangeLine /\ NotWanted(pWanted, pSrc.prop)) =>
       pOutcome = "skipped" /\ pErr = "none"
  /\ pSrc.kind \in {"blank", "comment", "noshape"} =>
       pOutcome = "skipped" /\ pErr = "none"

\* after a row was read, a wanted line with hi > 0x10FFFF raised RangeError
C6_Witness ==
  /\ pIdx = 2 /\ Len(pRows) = 1
  /\ pWanted = Wanted(gcb_props)
  /\ pSrc.kind = "data" /\ pSrc.prop = <<"C", "o", "n", "t", "r", "o", "l">>
  /\ pSrc.lo = MaxCodepoint + 1 /\ pSrc.hi = MaxCodepoint + 1
  /\ pErr = "RangeError"

-----------------------------------------------------------------------------
\* _ensure_sources and _download_to

\* URLS, in iteration order
URLS == <<"GraphemeBreakProperty.txt", "emoji-data.txt", "EastAsianWidth.txt">>

Resources == {URLS[i] : i \in 1..Len(URLS)}

Absent == [exists |-> FALSE, lines |-> <<>>]
File(lines) == [exists |-> TRUE, lines |-> lines]

NeedsFetchAlways(c) == TRUE

\* if not p.exists()
NeedsFetch(c) == ~c.exists

\* an exception raised by a call in main ends main; otherwise the next
\* statement runs
SwallowError(e, next) == next

Propagate(e, next) == IF e = "none" THEN next ELSE "failed"

\* what the pinned URLs may serve, and what a cache directory may hold
GcbFiles ==
  {<<<<"#", " ", "G", "r", "a", "p", "h", "e", "m", "e", "B", "r", "e", "a", "k", "P", "r", "o",
      "p", "e", "r", "t", "y", "-", "1", "5", ".", "1", ".", "0", ".", "t", "x", "t">>, <<>>,
      <<"0", "0", "0", "D", " ", " ", " ", " ", " ", " ", " ", " ", " ", " ", ";", " ", "C", "R",
      " ", "#", " ", "C", "c">>,
     <<"0", "3", "0", "0", ".", ".", "0", "3", "6", "F", " ", " ", " ", " ", ";", " ", "E", "x",
         "t", "e", "n", "d", " ", "#", " ", "M", "n">>, <<"0", "3", "7", "0", ".", ".", "0", "3",
         "7", "4", " ", " ", " ", " ", ";", " ", "E", "x", "t", "e", "n", "d">>, <<"1", "1", "0",
         "0", ".", ".", "1", "1", "5", "F", " ", " ", " ", " ", ";", " ", "L">>>>,
   <<<<"0", "0", "0", "0", ".", ".", "0", "0", "0", "D", " ", ";", " ", "C", "o", "n", "t", "r",
       "o", "l">>, <<"0", "0", "0", "D", " ", ";", " ", "C", "R">>>>,
   <<<<"0", "0", "0", "A", " ", ";", " ", "L", "F">>, <<"1", "1", "0", "0", "0", "0", " ", ";",
       " ", "C", "o", "n", "t", "r", "o", "l">>>>,
   <<<<"1", ".", "2", " ", ";", " ", "L">>>>}

EmojiFiles ==
  {<<<<"0", "0", "2", "3", " ", " ", " ", " ", " ", " ", " ", " ", " ", " ", ";", " ", "E", "m",
      "o", "j", "i", " ", " ", " ", " ", " ", " ", " ", " ", " ", " ", " ", " ", " ", " ", " ",
      " ", "#", " ", "E", "0", ".", "0">>, <<"2", "3", "1", "A", ".", ".", "2", "3", "1", "B",
      " ", " ", " ", " ", ";", " ", "E", "m", "o", "j", "i", "_", "P", "r", "e", "s", "e", "n",
      "t", "a", "t", "i", "o", "n">>,
     <<"2", "3", "E", "9", ".", ".", "2", "3", "E", "C", " ", " ", " ", " ", ";", " ", "E", "m",
         "o", "j", "i", "_", "P", "r", "e", "s", "e", "n", "t", "a", "t", "i", "o", "n">>, <<"2",
         "3", "1", "A", ".", ".", "2", "3", "1", "B", " ", " ", " ", " ", ";", " ", "E", "x",
         "t", "e", "n", "d", "e", "d", "_", "P", "i", "c", "t", "o", "g", "r", "a", "p", "h",
         "i", "c">>,
     <<"0", "0", "A", "9", " ", " ", " ", " ", " ", " ", " ", " ", " ", " ", ";", " ", "E", "x",
         "t", "e", "n", "d", "e", "d", "_", "P", "i", "c", "t", "o", "g", "r", "a", "p", "h",
         "i", "c">>, <<"2", "3", "1", "9", ".", ".", "2", "3", "1", "A", " ", " ", " ", " ", ";",
         " ", "E", "x", "t", "e", "n", "d", "e", "d", "_", "P", "i", "c", "t", "o", "g", "r",
         "a", "p", "h", "i", "c">>>>,
   <<<<"0", "0", "A", "E", ".", ".", "0", "0", "A", "9", " ", ";", " ", "E", "x", "t", "e", "n",
       "d", "e", "d", "_", "P", "i", "c", "t", "o", "g", "r", "a", "p", "h", "i", "c">>>>}

EawFiles ==
  {<<<<"0", "0", "2", "0", ";", "N", "a">>, <<"1", "1", "0", "0", ".", ".", "1", "1", "5", "F",
      ";", "W">>, <<"F", "F", "0", "1", ".", ".", "F", "F", "6", "0", ";", "F">>, <<"1", "1",
      "6", "0", ".", ".", "1", "1", "F", "F", ";", "W">>, <<"1", "1", "0", "0", ";", "W">>>>,
   <<<<"3", "0", "0", "0", ";", "F">>, <<"F", "F", "F", "F", "F", "F", ";", "W">>>>}

Remote(name) ==
  CASE name = "GraphemeBreakProperty.txt" -> GcbFiles
    [] name = "emoji-data.txt" -> EmojiFiles
    [] name = "EastAsianWidth.txt" -> EawFiles

\* what the cache directory may hold when main starts: per resource no file,
\* or a file the pinned URL may have served
CacheStates ==
  {c \in [Resources -> {Absent} \cup {File(f) : f \in GcbFiles \cup EmojiFiles \cup EawFiles}] :
     \A n \in Resources : c[n].exists => c[n].lines \in Remote(n)}

NoRows == <<>>
NoArgs == [called |-> FALSE, gcb |-> <<>>, ep |-> <<>>, emoji_pres |-> <<>>, eaw_wide |-> <<>>]
OldOutput == File(<<<<"/", "*", " ", "p", "r", "e", "v", "i", "o", "u", "s", " ", "o", "u", "t",
    "p", "u", "t", " ", "*", "/">>>>)

MainInit ==
  /\ pc = "ensure" /\ src_i = 1
  /\ cache \in CacheStates
  /\ cache0 = cache
  /\ attempts = [n \in Resources |-> 0]
  /\ fetched = [n \in Resources |-> Absent]
  /\ gcb_rows = NoRows /\ emoji_rows = NoRows /\ ep = NoRows
  /\ emoji_pres = NoRows /\ eaw_rows = NoRows /\ eaw_wide = NoRows
  /\ validated = {} /\ emit_args = NoArgs
  /\ out_dir \in BOOLEAN
  /\ out_file \in {Absent, OldOutput} /\ (out_file.exists => out_dir)
  /\ out0 = out_file
  /\ writes = 0 /\ steps = <<>> /\ err = "none"

unchanged_rows == UNCHANGED <<gcb_rows, emoji_rows, ep, emoji_pres, eaw_rows, eaw_wide>>
unchanged_out == UNCHANGED <<validated, emit_args, out_dir, out_file, out0, writes>>
unchanged_cache ==
  UNCHANGED <<src_i, cache, cache0, attempts, fetched>> /\ UNCHANGED <<mvars, pvars>>

\* the cache file exists: out[name] = p, no download
EnsureCached ==
  /\ pc = "ensure" /\ src_i <= Len(URLS)
  /\ ~NeedsFetch(cache[URLS[src_i]])
  /\ src_i' = src_i + 1
  /\ UNCHANGED <<pc, cache, cache0, attempts, fetched, steps, err>>
  /\ unchanged_rows /\ unchanged_out /\ UNCHANGED <<mvars, pvars>>

\* _download_to succeeds: the bytes read are written to the cache path
FetchOk ==
  /\ pc = "ensure" /\ src_i <= Len(URLS)
  /\ NeedsFetch(cache[URLS[src_i]])
  /\ \E data \in Remote(URLS[src_i]) :
       /\ fetched' = [fetched EXCEPT ![URLS[src_i]] = File(data)]
       /\ cache' = [cache EXCEPT ![URLS[src_i]] = File(data)]
  /\ attempts' = [attempts EXCEPT ![URLS[src_i]] = @ + 1]
  /\ src_i' = src_i + 1
  /\ UNCHANGED <<pc, cache0, steps, err>>
  /\ unchanged_rows /\ unchanged_out /\ UNCHANGED <<mvars, pvars>>

\* _download_to raises: urlopen or read failed (no cache file), or
\* write_bytes failed after creating the file (an empty cache file is left)
FetchFail ==
  /\ pc = "ensure" /\ src_i <= Len(URLS)
  /\ NeedsFetch(cache[URLS[src_i]])
  /\ \E left \in {Absent, File(<<>>)} :
       cache' = [cache EXCEPT ![URLS[src_i]] = left]
  /\ attempts' = [attempts EXCEPT ![URLS[src_i]] = @ + 1]
  /\ err' = "FetchError"
  /\ pc' = "failed"
  /\ UNCHANGED <<src_i, cache0, fetched, steps>>
  /\ unchanged_rows /\ unchanged_out /\ UNCHANGED <<mvars, pvars>>

\* return out
EnsureDone ==
  /\ pc = "ensure" /\ src_i > Len(URLS)
  /\ pc' = "parse_gcb"
  /\ steps' = Append(steps, "ensure_sources")
  /\ UNCHANGED err
  /\ unchanged_cache /\ unchanged_rows /\ unchanged_out

-----------------------------------------------------------------------------
\* main, after _ensure_sources

\* gcb_rows = _parse_property_file(srcs["GraphemeBreakProperty.txt"], wanted=gcb_props)
ParseGcb ==
  /\ pc = "parse_gcb"
  /\ LET r == parse_property_file(cache["GraphemeBreakProperty.txt"].lines, Wanted(gcb_props))
     IN /\ gcb_rows' = r.rows
        /\ err' = r.err
        /\ pc' = Propagate(r.err, "merge_gcb")
        /\ steps' = IF r.err = "none" THEN Append(steps, "parse_gcb") ELSE steps
  /\ UNCHANGED <<emoji_rows, ep, emoji_pres, eaw_rows, eaw_wide>>
  /\ unchanged_cache /\ unchanged_out

\* gcb_rows = _merge_valued_ranges(gcb_rows)
MergeGcb ==
  /\ pc = "merge_gcb"
  /\ gcb_rows' = merge_valued_ranges(gcb_rows)
  /\ pc' = "validate_gcb"
  /\ steps' = Append(steps, "merge_gcb")
  /\ UNCHANGED <<emoji_rows, ep, emoji_pres, eaw_rows, eaw_wide, err>>
  /\ unchanged_cache /\ unchanged_out

\* _assert_disjoint_sorted(gcb_rows, "GCB")
ValidateGcb ==
  /\ pc = "validate_gcb"
  /\ LET v == assert_disjoint_sorted(gcb_rows)
         e == IF v.raised THEN "OverlapError" ELSE "none"
     IN /\ err' = e
        /\ pc' = Propagate(e, "parse_emoji")
        /\ validated' = IF v.raised THEN validated ELSE validated \cup {"gcb_rows"}
        /\ steps' = IF v.raised THEN steps ELSE Append(steps, "validate_gcb")
  /\ UNCHANGED <<emit_args, out_dir, out_file, out0, writes>>
  /\ unchanged_cache /\ unchanged_rows

\* emoji_rows = _parse_property_file(srcs["emoji-data.txt"], wanted={...})
ParseEmoji ==
  /\ pc = "parse_emoji"
  /\ LET r == parse_property_file(cache["emoji-data.txt"].lines, Wanted(emoji_props))
     IN /\ emoji_rows' = r.rows
        /\ err' = r.err
        /\ pc' = Propagate(r.err, "merge_ep")
        /\ steps' = IF r.err = "none" THEN Append(steps, "parse_emoji") ELSE steps
  /\ UNCHANGED <<gcb_rows, ep, emoji_pres, eaw_rows, eaw_wide>>
  /\ unchanged_cache /\ unchanged_out

\* [(lo, hi) for lo, hi, prop in rows if prop == name]
RangesOf(rows, name) ==
  Project(SelectSeq(rows, LAMBDA r : r[3] = name))

\* ep = _merge_ranges([... if prop == "Extended_Pictographic"])
MergeEp ==
  /\ pc = "merge_ep"
  /\ ep' = merge_ranges(RangesOf(emoji_rows, <<"E", "x", "t", "e", "n", "d", "e", "d", "_", "P",
      "i", "c", "t", "o", "g", "r", "a", "p", "h", "i", "c">>))
  /\ pc' = "merge_emoji_pres"
  /\ steps' = Append(steps, "merge_ep")
  /\ UNCHANGED <<gcb_rows, emoji_rows, emoji_pres, eaw_rows, eaw_wide, err>>
  /\ unchanged_cache /\ unchanged_out

\* emoji_pres = _merge_ranges([... if prop == "Emoji_Presentation"])
MergeEmojiPres ==
  /\ pc = "merge_emoji_pres"
  /\ emoji_pres' = merge_ranges(RangesOf(emoji_rows, <<"E", "m", "o", "j", "i", "_", "P", "r",
      "e", "s", "e", "n", "t", "a", "t", "i", "o", "n">>))
  /\ pc' = "parse_eaw"
  /\ steps' = Append(steps, "merge_emoji_pres")
  /\ UNCHANGED <<gcb_rows, emoji_rows, ep, eaw_rows, eaw_wide, err>>
  /\ unchanged_cache /\ unchanged_out

\* eaw_rows = _parse_property_file(srcs["EastAsianWidth.txt"], wanted={"W", "F"})
ParseEaw ==
  /\ pc = "parse_eaw"
  /\ LET r == parse_property_file(cache["EastAsianWidth.txt"].lines, Wanted(eaw_props))
     IN /\ eaw_rows' = r.rows
        /\ err' = r.err
        /\ pc' = Propagate(r.err, "merge_eaw")
        /\ steps' = IF r.err = "none" THEN Append(steps, "parse_eaw") ELSE steps
  /\ UNCHANGED <<gcb_rows, emoji_rows, ep, emoji_pres, eaw_wide>>
  /\ unchanged_cache /\ unchanged_out

\* eaw_wide = _merge_ranges([(lo, hi) for lo, hi, _prop in eaw_rows])
MergeEaw ==
  /\ pc = "merge_eaw"
  /\ eaw_wide' = merge_ranges(Project(eaw_rows))
  /\ pc' = "emit"
  /\ steps' = Append(steps, "merge_eaw")
  /\ UNCHANGED <<gcb_rows, emoji_rows, ep, emoji_pres, eaw_rows, err>>
  /\ unchanged_cache /\ unchanged_out

-----------------------------------------------------------------------------
\* _emit_inc

gcb_map_items ==
  <<<<<<"C", "R">>, <<"Z", "R", "_", "G", "C", "B", "_", "C", "R">>>>,
    <<<<"L", "F">>, <<"Z", "R", "_", "G", "C", "B", "_", "L", "F">>>>,
    <<<<"C", "o", "n", "t", "r", "o", "l">>, <<"Z", "R", "_", "G", "C", "B", "_", "C", "O", "N",
        "T", "R", "O", "L">>>>,
    <<<<"E", "x", "t", "e", "n", "d">>, <<"Z", "R", "_", "G", "C", "B", "_", "E", "X", "T", "E",
        "N", "D">>>>,
    <<<<"Z", "W", "J">>, <<"Z", "R", "_", "G", "C", "B", "_", "Z", "W", "J">>>>,
    <<<<"R", "e", "g", "i", "o", "n", "a", "l", "_", "I", "n", "d", "i", "c", "a", "t", "o",
        "r">>, <<"Z", "R", "_", "G", "C", "B", "_", "R", "E", "G", "I", "O", "N", "A", "L", "_",
        "I", "N", "D", "I", "C", "A", "T", "O", "R">>>>,
    <<<<"P", "r", "e", "p", "e", "n", "d">>, <<"Z", "R", "_", "G", "C", "B", "_", "P", "R", "E",
        "P", "E", "N", "D">>>>,
    <<<<"S", "p", "a", "c", "i", "n", "g", "M", "a", "r", "k">>, <<"Z", "R", "_", "G", "C", "B",
        "_", "S", "P", "A", "C", "I", "N", "G", "M", "A", "R", "K">>>>,
    <<<<"L">>, <<"Z", "R", "_", "G", "C", "B", "_", "L">>>>,
    <<<<"V">>, <<"Z", "R", "_", "G", "C", "B", "_", "V">>>>,
    <<<<"T">>, <<"Z", "R", "_", "G", "C", "B", "_", "T">>>>,
    <<<<"L", "V">>, <<"Z", "R", "_", "G", "C", "B", "_", "L", "V">>>>,
    <<<<"L", "V", "T">>, <<"Z", "R", "_", "G", "C", "B", "_", "L", "V", "T">>>>>>

\* gcb_map.get(prop): found = FALSE is None
gcb_map_get(prop) ==
  LET hits == {i \in 1..Len(gcb_map_items) : gcb_map_items[i][1] = prop}
  IN IF hits = {} THEN [found |-> FALSE, name |-> <<>>]
     ELSE [found |-> TRUE, name |-> gcb_map_items[CHOOSE i \in hits : TRUE][2]]

\* fmt_u32
fmt_u32(x) ==
  IF x <= 65535 THEN <<"0", "x">> \o HexText04(x) \o <<"u">>
  ELSE <<"0", "x">> \o HexText(x) \o <<"u">>

\* emit_ranges8: the lines of the table; ok = FALSE is the ValueError raised
\* for an unmapped property
emit_ranges8(name, rows) ==
  [ok |-> \A i \in 1..Len(rows) : gcb_map_get(rows[i][3]).found,
   lines |->
     <<<<"s", "t", "a", "t", "i", "c", " ", "c", "o", "n", "s", "t", " ", "z", "r", "_", "u",
         "n", "i", "c", "o", "d", "e", "_", "r", "a", "n", "g", "e", "8", "_", "t",
         " ">> \o name \o <<"[", "]", " ", "=", " ", "{">>>>
     \o [i \in 1..Len(rows) |->
           <<" ", " ", "{">> \o fmt_u32(rows[i][1]) \o <<",", " ">> \o fmt_u32(rows[i][2])
           \o <<",", " ", "(", "u", "i", "n", "t", "8", "_", "t",
               ")">> \o gcb_map_get(rows[i][3]).name \o <<",", " ", "{", "0", "u", ",", " ", "0",
               "u", ",", " ", "0", "u", "}", "}", ",">>]
     \o <<<<"}", ";">>>>]

\* emit_ranges
emit_ranges(name, rows) ==
  <<<<"s", "t", "a", "t", "i", "c", " ", "c", "o", "n", "s", "t", " ", "z", "r", "_", "u", "n",
      "i", "c", "o", "d", "e", "_", "r", "a", "n", "g", "e", "_", "t", " ">> \o name \o <<"[",
      "]", " ", "=", " ", "{">>>>
  \o [i \in 1..Len(rows) |->
        <<" ", " ", "{">> \o fmt_u32(rows[i][1]) \o <<",", " ">> \o fmt_u32(rows[i][2]) \o <<"}",
            ",">>]
  \o <<<<"}", ";">>>>

\* hdr, line by line; "U+2014" stands for the em dash character
hdr ==
  <<<<"/", "*">>,
    <<" ", " ", "s", "r", "c", "/", "u", "n", "i", "c", "o", "d", "e", "/", "z", "r", "_", "u",
        "n", "i", "c", "o", "d", "e", "_", "d", "a", "t", "a", "_", "t", "a", "b", "l", "e", "s",
        "_", "1", "5", "_", "1", "_", "0", ".", "i", "n", "c", " ">> \o <<"U+2014">>
      \o <<" ", "G", "e", "n", "e", "r", "a", "t", "e", "d", " ", "U", "n", "i", "c", "o", "d",
          "e", " ", "1", "5", ".", "1", ".", "0", " ", "t", "a", "b", "l", "e", "s", ".">>,
    <<>>,
    <<" ", " ", "W", "h", "y", ":", " ", "P", "r", "o", "v", "i", "d", "e", "s", " ", "i", "m",
        "m", "u", "t", "a", "b", "l", "e", ",", " ", "d", "e", "t", "e", "r", "m", "i", "n", "i",
        "s", "t", "i", "c", " ", "p", "r", "o", "p", "e", "r", "t", "y", " ", "r", "a", "n", "g",
        "e", "s", " ", "f", "o", "r", " ", "g", "r", "a", "p", "h", "e", "m", "e", " ", "i", "t",
        "e", "r", "a", "t", "i", "o", "n", " ", "a", "n", "d", " ", "w", "i", "d", "t", "h",
        ".">>,
    <<>>,
    <<" ", " ", "G", "e", "n", "e", "r", "a", "t", "e", "d", " ", "b", "y", ":", " ", "s", "c",
        "r", "i", "p", "t", "s", "/", "u", "n", "i", "c", "o", "d", "e", "/", "g", "e", "n", "_",
        "u", "n", "i", "c", "o", "d", "e", "_", "t", "a", "b", "l", "e", "s", ".", "p", "y">>,
    <<"*", "/">>>>

\* hdr + "\n" + "\n\n".join(tables) + "\n", line by line
emit_text(t8, t_ep, t_pres, t_eaw) ==
  hdr \o <<<<>>>> \o t8 \o <<<<>>>> \o t_ep \o <<<<>>>> \o t_pres \o <<<<>>>> \o t_eaw

\* _emit_inc(args.out, gcb_rows, ep, emoji_pres, eaw_wide); return 0
EmitInc ==
  /\ pc = "emit"
  /\ emit_args' = [called |-> TRUE, gcb |-> gcb_rows, ep |-> ep,
                   emoji_pres |-> emoji_pres, eaw_wide |-> eaw_wide]
  /\ out_dir' = TRUE
  /\ LET t8 == emit_ranges8(<<"k", "G", "c", "b", "R", "a", "n", "g", "e", "s">>, gcb_rows)
         e == IF t8.ok THEN "none" ELSE "UnmappedSymbolError"
     IN /\ err' = e
        /\ pc' = Propagate(e, "done")
        /\ steps' = IF t8.ok THEN Append(steps, "format") ELSE steps
        /\ out_file' =
             IF t8.ok
             THEN File(emit_text(t8.lines,
                                 emit_ranges(<<"k", "E", "x", "t", "e", "n", "d", "e", "d", "P",
                                     "i", "c", "t", "o", "g", "r", "a", "p", "h", "i", "c", "R",
                                     "a", "n", "g", "e", "s">>, ep),
                                 emit_ranges(<<"k", "E", "m", "o", "j", "i", "P", "r", "e", "s",
                                     "e", "n", "t", "a", "t", "i", "o", "n", "R", "a", "n", "g",
                                     "e", "s">>, emoji_pres),
                                 emit_ranges(<<"k", "E", "a", "w", "W", "i", "d", "e", "R", "a",
                                     "n", "g", "e", "s">>, eaw_wide)))
             ELSE out_file
        /\ writes' = IF t8.ok THEN writes + 1 ELSE writes
  /\ UNCHANGED <<validated, out0>>
  /\ unchanged_cache /\ unchanged_rows

MainNext ==
  \/ EnsureCached \/ FetchOk \/ FetchFail \/ EnsureDone
  \/ ParseGcb \/ MergeGcb \/ ValidateGcb
  \/ ParseEmoji \/ MergeEp \/ MergeEmojiPres
  \/ ParseEaw \/ MergeEaw
  \/ EmitInc

MainIdle ==
  /\ pc = "idle" /\ src_i = 1
  /\ cache = [n \in Resources |-> Absent] /\ cache0 = cache
  /\ attempts = [n \in Resources |-> 0]
  /\ fetched = [n \in Resources |-> Absent]
  /\ gcb_rows = NoRows /\ emoji_rows = NoRows /\ ep = NoRows
  /\ emoji_pres = NoRows /\ eaw_rows = NoRows /\ eaw_wide = NoRows
  /\ validated = {} /\ emit_args = NoArgs
  /\ out_dir = FALSE /\ out_file = Absent /\ out0 = Absent
  /\ writes = 0 /\ steps = <<>> /\ err = "none"

-----------------------------------------------------------------------------
\* Properties of main (checked under Spec).

\* the steps main completes before the output file is written
StepsBeforeWrite ==
  <<"ensure_sources", "parse_gcb", "merge_gcb", "validate_gcb",
    "parse_emoji", "merge_ep", "merge_emoji_pres", "parse_eaw", "merge_eaw", "format">>

\* C5: the output file is written at most once, only after source
\* acquisition, the three parses, the merges, the validation and the
\* formatting of the four tables have completed without error; when any step
\* fails the output file is the one main found.
C5_AllOrNothing ==
  /\ writes <= 1
  /\ writes = 1 => (steps = StepsBeforeWrite /\ err = "none" /\ pc = "done")
  /\ writes = 0 => out_file = out0
  /\ err # "none" => (writes = 0 /\ out_file = out0 /\ pc = "failed")
  /\ pc = "done" => writes = 1

\* a run that failed in the last parse, after the GCB table was validated,
\* left an existing output file as it was
C5_Witness ==
  /\ pc = "failed" /\ err = "RangeError"
  /\ steps = SubSeq(StepsBeforeWrite, 1, 7)
  /\ out0.exists /\ out_file = out0

\* the resources before position src_i in URLS
Visited == {URLS[i] : i \in 1..(src_i - 1)}

\* C9: within one run _ensure_sources calls _download_to once for each
\* resource whose cache file is absent and never for one whose cache file is
\* present; after a failed fetch nothing more is fetched and no parse begins;
\* a successful fetch leaves the bytes read in the cache file.
C9_FetchOncePerMissing ==
  /\ \A n \in Resources :
       /\ attempts[n] <= 1
       /\ cache0[n].exists => (attempts[n] = 0 /\ cache[n] = cache0[n])
       /\ (n \in Visited /\ ~cache0[n].exists) => attempts[n] = 1
       /\ fetched[n].exists => (attempts[n] = 1 /\ cache[n] = fetched[n])
  /\ (steps # <<>> \/ pc = "done") =>
       \A n \in Resources : (attempts[n] = 1 <=> ~cache0[n].exists) /\ cache[n].exists
  /\ err = "FetchError" =>
       /\ pc = "failed" /\ steps = <<>>
       /\ attempts[URLS[src_i]] = 1 /\ ~fetched[URLS[src_i]].exists
       /\ \A i \in (src_i + 1)..Len(URLS) : attempts[URLS[i]] = 0

\* the first resource was cached, the second was fetched, the fetch of the
\* third failed
C9_Witness ==
  /\ pc = "failed" /\ err = "FetchError" /\ src_i = 3
  /\ cache0[URLS[1]].exists /\ attempts[URLS[1]] = 0
  /\ ~cache0[URLS[2]].exists /\ attempts[URLS[2]] = 1 /\ cache[URLS[2]] = fetched[URLS[2]]
  /\ ~cache0[URLS[3]].exists /\ attempts[URLS[3]] = 1

\* the names main gives the four lists it hands to _emit_inc
EmittedLists == {"gcb_rows", "ep", "emoji_pres", "eaw_wide"}

-----
\* Specifications.

\* main, from any state of the cache directory and of the output file
Init == MainInit /\ MergeIdle /\ ParseIdle

Next == MainNext

Spec == Init /\ [][Next]_vars

\* the two merges and the validator, on every sample list
MergeSpecInit == MergeInit /\ ParseIdle /\ MainIdle

MergeSpec == MergeSpecInit /\ [][MergeNext]_vars

\* the line parser, on every sample line and wanted set
ParseSpecInit == ParseInit /\ MergeIdle /\ MainIdle

ParseSpec == ParseSpecInit /\ [][ParseNext]_vars

=============================================================================
